---- MODULE Spec2Model ----
(***************************************************************************)
(* Model of create_chunks.py: the batch loop that lists tedx_audios/,      *)
(* parses each file name, calls the transcription model on the file and    *)
(* writes jsons/<file name>.json.                                          *)
(*                                                                         *)
(* File names, numbers and titles are sequences of one-character strings.  *)
(* Segment texts and full texts are opaque strings (the script never looks *)
(* inside them); times are in tenths of a second.                          *)
(***************************************************************************)
EXTENDS Integers, Sequences, FiniteSets, TLC

VARIABLES
    dir,        \* the entries of tedx_audios/ (never changed by the script)
    model,      \* the loaded model: entry -> what transcribe returns for its path
                \* (the call is consumed as a function of the path; it may raise)
    disk,       \* jsons/: path -> file content
    audios,     \* the listing of line 7
    i,          \* position of the loop of line 9 in audios
    pc,         \* "list", "parse", "transcribe", "write", "done", "failed"
    err,        \* the step that raised: "none", "parse", "transcribe", "write"
    number,     \* locals of the loop body
    title,
    result,
    trace,      \* history of this run: the steps taken, in order
    snap        \* history: jsons/ as the last completed run left it

vars == <<dir, model, disk, audios, i, pc, err, number, title, result, trace, snap>>

----------------------------------------------------------------------------
(* Bounds of the inputs *)

MaxFiles == 2
MaxSegs == 2
MaxNameLen == 6
MaxTitleLen == 7

----------------------------------------------------------------------------
(* Strings *)

Sep == "_"

\* audio.split("_"): left-to-right scan, a token ends at every separator,
\* empty tokens are kept.  k is the scan position, cur the token being read.
RECURSIVE SplitScan(_, _, _)
SplitScan(s, k, cur) ==
    IF k > Len(s) THEN <<cur>>
    ELSE IF s[k] = Sep THEN <<cur>> \o SplitScan(s, k + 1, <<>>)
    ELSE SplitScan(s, k + 1, Append(cur, s[k]))

\* Variant: audio.split("_", 1), which cuts at the first separator only.
RECURSIVE SplitOnceScan(_, _)
SplitOnceScan(s, k) ==
    IF k > Len(s) THEN <<s>>
    ELSE IF s[k] = Sep
         THEN <<SubSeq(s, 1, k - 1), SubSeq(s, k + 1, Len(s))>>
         ELSE SplitOnceScan(s, k + 1)

SplitOnce(s) == SplitOnceScan(s, 1)

Split(s) == SplitScan(s, 1, <<>>)

\* The slice [:-4] of line 11 removes this many trailing characters.
TrimLen == 4

\* s[:-n] for n > 0: the stop index len(s) - n is clamped at 0.
DropLast(s, n) == IF Len(s) - n <= 0 THEN <<>> ELSE SubSeq(s, 1, Len(s) - n)

\* audio.split("_")[0]
Number(audio) == Split(audio)[1]

\* Variant: the slice [:-3], which leaves the dot of ".mp3" in the title.
TitleDropThree(audio) == DropLast(Split(audio)[2], 3)

\* Variant: the slice forgotten, the whole second token is the title.
TitleWholeToken(audio) == Split(audio)[2]

\* audio.split("_")[1][:-4]
Title(audio) == DropLast(Split(audio)[2], TrimLen)

\* Variant: indexing the token at -4 before slicing, which also raises on a
\* second token shorter than four characters.
ParseRaisesOnShort(audio) ==
    \/ Len(Split(audio)) < 2
    \/ Len(Split(audio)[2]) < TrimLen

\* audio.split("_")[1] raises IndexError when split returns a single token.
ParseRaises(audio) == Len(Split(audio)) < 2

\* f"tedx_audios/{audio}"
AudioPath(audio) == <<"tedx_audios/">> \o audio

\* Variant: f"jsons/{number}.json", the output named after the ordinal index.
OutPathByNumber(audio) == <<"jsons/">> \o Split(audio)[1] \o <<".", "j", "s", "o", "n">>

\* f"jsons/{audio}.json"
OutPath(audio) == <<"jsons/">> \o audio \o <<".", "j", "s", "o", "n">>

----------------------------------------------------------------------------
(* Documents and files *)

\* Variant: chunks.insert(0, ...), the newest chunk first.
ChunksNewestFirst(num, ttl, segments) ==
    [k \in 1..Len(segments) |->
        [number |-> num, title |-> ttl,
         start |-> segments[Len(segments) + 1 - k].start,
         end |-> segments[Len(segments) + 1 - k].end,
         text |-> segments[Len(segments) + 1 - k].text]]

\* lines 19-21: one chunk per segment, in the order of result["segments"].
RECURSIVE Chunks(_, _, _)
Chunks(num, ttl, segments) ==
    IF segments = <<>> THEN <<>>
    ELSE <<[number |-> num, title |-> ttl, start |-> Head(segments).start,
            end |-> Head(segments).end, text |-> Head(segments).text]>>
         \o Chunks(num, ttl, Tail(segments))

\* line 23
Document(num, ttl, res) ==
    [chunks |-> Chunks(num, ttl, res.segments), text |-> res.text]

\* A file of jsons/: the documents dumped into it in full, and whether a dump
\* that was cut short left a torn tail.
NewFile == [docs |-> <<>>, torn |-> FALSE]

\* open(path, "w"): creates the file, or truncates the one that is there.
OpenW(d, path) == [p \in DOMAIN d \cup {path} |-> IF p = path THEN NewFile ELSE d[p]]

\* json.dump(doc, f) run to its end, then the file is closed.
Dump(d, path, doc) == [d EXCEPT ![path].docs = Append(@, doc)]

\* json.dump raising part-way.
DumpTorn(d, path) == [d EXCEPT ![path].torn = TRUE]

\* Variant: open(path, "a"), which keeps what the file already holds.
AppendJson(d, path, doc) ==
    IF path \in DOMAIN d THEN Dump(d, path, doc) ELSE Dump(OpenW(d, path), path, doc)

\* lines 25-26
WriteJson(d, path, doc) == Dump(OpenW(d, path), path, doc)

EmptyDisk == [p \in {} |-> NewFile]

----------------------------------------------------------------------------
(* Input sets *)

Range(s) == {s[k] : k \in 1..Len(s)}

\* os.listdir returns every entry once, in arbitrary order.
Listings(d) ==
    {s \in [1..Cardinality(d) -> d] : \A a, b \in 1..Cardinality(d) : s[a] = s[b] => a = b}

Times == {0, 25, 50}
Texts == {"hello", "world"}
FullTexts == {"hello", "hello world"}

Segments == {s \in [start : Times, end : Times, text : Texts] : s.start < s.end}

RECURSIVE SeqsUpTo(_, _)
SeqsUpTo(S, n) ==
    IF n = 0 THEN {<<>>}
    ELSE LET shorter == SeqsUpTo(S, n - 1)
         IN  shorter \cup {Append(s, x) : s \in {t \in shorter : Len(t) = n - 1}, x \in S}

Results == [segments : SeqsUpTo(Segments, MaxSegs), text : FullTexts]

ExampleResult ==
    [segments |-> <<[start |-> 0, end |-> 25, text |-> "hello"]>>, text |-> "hello"]

SampleResults ==
    { [segments |-> <<>>, text |-> "hello"],
      ExampleResult,
      [segments |-> <<[start |-> 0, end |-> 25, text |-> "hello"],
                      [start |-> 25, end |-> 50, text |-> "world"]>>,
       text |-> "hello world"] }

\* "7_ab.mp3", "7_cd.txt" (same ordinal index, not an audio extension),
\* "8_a_b.mp3" (an underscore in the title), "notes" (no underscore)
BatchNames ==
    { <<"7", "_", "a", "b", ".", "m", "p", "3">>,
      <<"7", "_", "c", "d", ".", "t", "x", "t">>,
      <<"8", "_", "a", "_", "b", ".", "m", "p", "3">>,
      <<"n", "o", "t", "e", "s">> }

NameChars == {"7", "_", "a"}
AnyNames == SeqsUpTo(NameChars, MaxNameLen) \ {<<>>}

Idxs == {<<"7">>, <<"0", "7">>}
Exts == {<<"m", "p", "3">>, <<"w", "a", "v">>}
TitleChars == {"a", "_"}
Titles == SeqsUpTo(TitleChars, MaxTitleLen) \ {<<>>}

\* "<idx>_<title>.<ext>"
Conv(idx, ttl, ext) == idx \o <<"_">> \o ttl \o <<".">> \o ext
ConvNames == {Conv(idx, ttl, ext) : idx \in Idxs, ttl \in Titles, ext \in Exts}

NoResult == [segments |-> <<>>, text |-> ""]
NoSnap == [valid |-> FALSE, disk |-> EmptyDisk]

----------------------------------------------------------------------------
(* The script *)

\* The process starts on an output directory left by earlier runs (empty
\* before the first): nothing listed yet, no local bound.
Fresh ==
    /\ audios = <<>>
    /\ i = 1
    /\ pc = "list"
    /\ err = "none"
    /\ number = <<>>
    /\ title = <<>>
    /\ result = NoResult
    /\ trace = <<>>

\* Batch runs over directories of up to MaxFiles entries.
Init ==
    /\ dir \in {d \in SUBSET BatchNames : Cardinality(d) <= MaxFiles}
    /\ model \in [dir -> SampleResults]
    /\ disk = EmptyDisk
    /\ snap = NoSnap
    /\ Fresh

\* One entry, of any name.
InitParse ==
    /\ \E name \in AnyNames \cup ConvNames : dir = {name}
    /\ model = [f \in dir |-> ExampleResult]
    /\ disk = EmptyDisk
    /\ snap = NoSnap
    /\ Fresh

\* One entry, any transcription result.
InitChunks ==
    /\ dir = {<<"7", "_", "a", "b", ".", "m", "p", "3">>}
    /\ model \in [dir -> Results]
    /\ disk = EmptyDisk
    /\ snap = NoSnap
    /\ Fresh

NoDoc == [chunks |-> <<>>, text |-> ""]

\* One step of the run: what was done, for which entry, on which path, and
\* for a write the document that was dumped.
Event(op, audio, path, doc) == [op |-> op, audio |-> audio, path |-> path, doc |-> doc]

\* Variant: a loop that tests its condition after the body, so that the
\* body is entered once whatever the listing.
LoopPcBodyFirst(k, listing) == IF k = 1 \/ k <= Len(listing) THEN "parse" ELSE "done"

\* The loop head: the next entry, or the end of the listing.
LoopPc(k, listing) == IF k <= Len(listing) THEN "parse" ELSE "done"

\* line 7, then the loop head of line 9
ListDir ==
    /\ pc = "list"
    /\ \E l \in Listings(dir) :
          /\ audios' = l
          /\ pc' = LoopPc(1, l)
    /\ i' = 1
    /\ UNCHANGED <<dir, model, disk, err, number, title, result, trace, snap>>

\* lines 10-12: line 10 binds number, then line 11 raises or binds title
Parse ==
    /\ pc = "parse"
    /\ trace' = Append(trace, Event("parse", audios[i], <<>>, NoDoc))
    /\ number' = Number(audios[i])
    /\ IF ParseRaises(audios[i])
       THEN /\ pc' = "failed"
            /\ err' = "parse"
            /\ UNCHANGED title
       ELSE /\ title' = Title(audios[i])
            /\ pc' = "transcribe"
            /\ UNCHANGED err
    /\ UNCHANGED <<dir, model, disk, audios, i, result, snap>>

\* Variant: the call of the commented-out line 14, always on one fixed file.
TranscribeFixedFile ==
    /\ pc = "transcribe"
    /\ trace' = Append(trace, Event("transcribe", audios[1], AudioPath(audios[1]), NoDoc))
    /\ result' = model[audios[1]]
    /\ pc' = "write"
    /\ UNCHANGED <<dir, model, disk, audios, i, err, number, title, snap>>

\* lines 13-17, the call returns
Transcribe ==
    /\ pc = "transcribe"
    /\ trace' = Append(trace, Event("transcribe", audios[i], AudioPath(audios[i]), NoDoc))
    /\ result' = model[audios[i]]
    /\ pc' = "write"
    /\ UNCHANGED <<dir, model, disk, audios, i, err, number, title, snap>>

\* Variant: the call wrapped in try/except with continue, skipping the entry.
TranscribeSkip ==
    /\ pc = "transcribe"
    /\ trace' = Append(trace, Event("transcribe", audios[i], AudioPath(audios[i]), NoDoc))
    /\ err' = "transcribe"
    /\ i' = i + 1
    /\ pc' = IF i + 1 <= Len(audios) THEN "parse" ELSE "done"
    /\ UNCHANGED <<dir, model, disk, audios, number, title, result, snap>>

\* lines 13-17, the call raises (unreadable audio, the model fails)
TranscribeFail ==
    /\ pc = "transcribe"
    /\ trace' = Append(trace, Event("transcribe", audios[i], AudioPath(audios[i]), NoDoc))
    /\ pc' = "failed"
    /\ err' = "transcribe"
    /\ UNCHANGED <<dir, model, disk, audios, i, number, title, result, snap>>

\* lines 19-26, then the loop head of line 9
Write ==
    /\ pc = "write"
    /\ disk' = WriteJson(disk, OutPath(audios[i]), Document(number, title, result))
    /\ trace' = Append(trace, Event("write", audios[i], OutPath(audios[i]),
                                    Document(number, title, result)))
    /\ i' = i + 1
    /\ pc' = LoopPc(i + 1, audios)
    /\ UNCHANGED <<dir, model, audios, err, number, title, result, snap>>

\* lines 25-26 raise: open fails and the file is untouched, or the file is
\* opened (truncated) and the dump is cut short.
WriteFail ==
    /\ pc = "write"
    /\ \/ disk' = disk
       \/ disk' = OpenW(disk, OutPath(audios[i]))
       \/ disk' = DumpTorn(OpenW(disk, OutPath(audios[i])), OutPath(audios[i]))
    /\ pc' = "failed"
    /\ err' = "write"
    /\ UNCHANGED <<dir, model, audios, i, number, title, result, trace, snap>>

\* The script is started again on the same directories; snap remembers what
\* the run that just ended left in jsons/ if it ran to completion.
Rerun ==
    /\ pc \in {"done", "failed"}
    /\ snap' = IF pc = "done" THEN [valid |-> TRUE, disk |-> disk] ELSE snap
    /\ audios' = <<>>
    /\ i' = 1
    /\ pc' = "list"
    /\ err' = "none"
    /\ number' = <<>>
    /\ title' = <<>>
    /\ result' = NoResult
    /\ trace' = <<>>
    /\ UNCHANGED <<dir, model, disk>>

Next ==
    \/ ListDir
    \/ Parse
    \/ Transcribe
    \/ TranscribeFail
    \/ Write
    \/ WriteFail
    \/ Rerun

Spec == Init /\ [][Next]_vars
SpecParse == InitParse /\ [][Next]_vars
SpecChunks == InitChunks /\ [][Next]_vars

----------------------------------------------------------------------------
(* Vocabulary of the properties.  Names are described by character          *)
(* positions here, not through Split.                                       *)

HasSep(s) == \E k \in 1..Len(s) : s[k] = Sep

\* Position of the first underscore of a name that has one.
FirstSep(s) == CHOOSE k \in 1..Len(s) : s[k] = Sep /\ \A j \in 1..(k - 1) : s[j] # Sep

\* Last position of the text that follows the first underscore and stops
\* before the next underscore, or at the end of the name.
SecondEnd(s) ==
    LET later == {k \in (FirstSep(s) + 1)..Len(s) : s[k] = Sep}
    IN  IF later = {} THEN Len(s)
        ELSE (CHOOSE k \in later : \A j \in later : k <= j) - 1

\* The characters of s at positions a..b, none when b < a.
Span(s, a, b) == IF b < a THEN <<>> ELSE SubSeq(s, a, b)

\* ttl is tok without its last n characters (empty when tok has at most n).
TrimmedBy(tok, ttl, n) ==
    IF Len(tok) <= n THEN ttl = <<>>
    ELSE Len(ttl) = Len(tok) - n /\ \A k \in 1..Len(ttl) : ttl[k] = tok[k]

\* f is idx, an underscore, a non-empty title, a dot and ext.
IsConv(f, idx, ext) ==
    /\ Len(f) >= Len(idx) + Len(ext) + 3
    /\ f = Conv(idx, Span(f, Len(idx) + 2, Len(f) - Len(ext) - 1), ext)

ConvTitle(f, idx, ext) == Span(f, Len(idx) + 2, Len(f) - Len(ext) - 1)

\* "<output_dir>/<original-filename>.json"
JsonName(f) == <<"jsons/">> \o f \o <<".", "j", "s", "o", "n">>

\* The locals number and title are those of the entry in progress.
Holding == pc \in {"transcribe", "write"} \/ (pc = "failed" /\ err # "parse")

Steps(op, f) == {k \in 1..Len(trace) : trace[k].op = op /\ trace[k].audio = f}
Writes == {k \in 1..Len(trace) : trace[k].op = "write"}

\* A file holding exactly the document doc.
WholeFile(doc) == [docs |-> <<doc>>, torn |-> FALSE]

HasWholeDoc(f) ==
    /\ JsonName(f) \in DOMAIN disk
    /\ Len(disk[JsonName(f)].docs) = 1
    /\ ~disk[JsonName(f)].torn

----------------------------------------------------------------------------
(* C1: when the loop runs to completion over the listing, the files written *)
(* are exactly the listed names with ".json" appended: every entry of the   *)
(* directory has one output file named after its full name, no other file   *)
(* is written, and no file is written for two entries.                      *)
C1_OutputsExact ==
    pc = "done" =>
        /\ Range(audios) = dir
        /\ {trace[k].path : k \in Writes} = {JsonName(f) : f \in Range(audios)}
        /\ \A k \in Writes : trace[k].path = JsonName(trace[k].audio)
        /\ \A k, l \in Writes : trace[k].path = trace[l].path => k = l
        /\ \A f \in Range(audios) : Cardinality(Steps("write", f)) = 1
        /\ DOMAIN disk = {JsonName(f) : f \in Range(audios)}
        /\ \A f \in Range(audios) : HasWholeDoc(f)

\* A completed run over two entries that share the ordinal index.
C1_Witness ==
    /\ pc = "done"
    /\ Len(audios) = 2
    /\ \A k \in Writes : Span(trace[k].audio, 1, 2) = <<"7", "_">>
    /\ Cardinality({trace[k].path : k \in Writes}) = 2

(* C2: the document written for a file has one chunk per segment of the     *)
(* transcription result, in the same order, each with the segment's start,  *)
(* end and text and with the number and title parsed from the file's name;  *)
(* its text is the result's full text.                                      *)
C2_ChunksMirrorSegments ==
    \A k \in Writes :
        LET f == trace[k].audio
            d == trace[k].doc
            segs == model[f].segments
        IN  /\ Len(d.chunks) = Len(segs)
            /\ \A n \in 1..Len(segs) :
                  /\ d.chunks[n].start = segs[n].start
                  /\ d.chunks[n].end = segs[n].end
                  /\ d.chunks[n].text = segs[n].text
                  /\ d.chunks[n].number = Number(f)
                  /\ d.chunks[n].title = Title(f)
            /\ d.text = model[f].text
            /\ disk[trace[k].path] = WholeFile(d)

\* A document of two chunks that differ in start, end and text.
C2_Witness ==
    \E k \in Writes :
        /\ Len(trace[k].doc.chunks) = 2
        /\ trace[k].doc.chunks[1].text # trace[k].doc.chunks[2].text
        /\ trace[k].doc.chunks[1].start # trace[k].doc.chunks[2].start
        /\ trace[k].doc.chunks[1].end # trace[k].doc.chunks[2].end
        /\ trace[k].doc.text = "hello world"

(* C3, as stated: for a name with an underscore, number is the first        *)
(* underscore-split token and title is the second token without its last    *)
(* three characters.                                                        *)
C3_TitleDropsThree ==
    (Holding /\ HasSep(audios[i])) =>
        /\ number = Split(audios[i])[1]
        /\ TrimmedBy(Split(audios[i])[2], title, 3)

(* C3, amended: for a name with an underscore, number is the first          *)
(* underscore-split token and title is the second token without its last    *)
(* four characters.                                                         *)
C3_TitleDropsFour ==
    (Holding /\ HasSep(audios[i])) =>
        /\ number = Split(audios[i])[1]
        /\ TrimmedBy(Split(audios[i])[2], title, 4)

\* A parsed name whose second token is longer than what is trimmed.
C3_Witness ==
    /\ Holding
    /\ HasSep(audios[i])
    /\ Len(Split(audios[i])[2]) > 4
    /\ title # <<>>

(* C4: for a name "<idx>_<title>.<ext>" with a three-character extension    *)
(* and no underscore in the title, number is idx and title is exactly the   *)
(* title, without the dot and the extension, in the locals and in every     *)
(* chunk written.                                                           *)
C4_ConventionalName ==
    \A f \in dir : \A idx \in Idxs : \A ext \in Exts :
        (IsConv(f, idx, ext) /\ ~HasSep(ConvTitle(f, idx, ext))) =>
            /\ (Holding /\ audios[i] = f) =>
                  (number = idx /\ title = ConvTitle(f, idx, ext))
            /\ \A k \in Steps("write", f) : \A n \in 1..Len(trace[k].doc.chunks) :
                  /\ trace[k].doc.chunks[n].number = idx
                  /\ trace[k].doc.chunks[n].title = ConvTitle(f, idx, ext)

\* "07_aaa.mp3" written with a chunk numbered "07" and titled "aaa".
C4_Witness ==
    \E k \in Writes :
        /\ trace[k].audio = <<"0", "7", "_", "a", "a", "a", ".", "m", "p", "3">>
        /\ Len(trace[k].doc.chunks) = 1
        /\ trace[k].doc.chunks[1].number = <<"0", "7">>
        /\ trace[k].doc.chunks[1].title = <<"a", "a", "a">>

(* C5, as stated: for every name "<idx>_<title>.<ext>", underscores in the  *)
(* title included, number is idx and title is everything between the first  *)
(* underscore and the last three characters of the name.                    *)
C5_TitleUpToLastThree ==
    \A idx \in Idxs : \A ext \in Exts :
        (Holding /\ IsConv(audios[i], idx, ext)) =>
            /\ number = idx
            /\ title = Span(audios[i], FirstSep(audios[i]) + 1, Len(audios[i]) - 3)

(* C5, amended: for every name "<idx>_<title>.<ext>", number is idx and     *)
(* title is the text between the first underscore and the second one (the   *)
(* end of the name when there is none) without its last four characters.    *)
C5_TitleUpToSecondSep ==
    \A idx \in Idxs : \A ext \in Exts :
        (Holding /\ IsConv(audios[i], idx, ext)) =>
            /\ number = idx
            /\ title = Span(audios[i], FirstSep(audios[i]) + 1, SecondEnd(audios[i]) - 4)
            /\ ~HasSep(ConvTitle(audios[i], idx, ext))
                  => title = Span(audios[i], FirstSep(audios[i]) + 1, Len(audios[i]) - 4)

\* A parsed conventional name with an underscore in its title and a title
\* that is not empty: what follows the second underscore is not in it.
C5_Witness ==
    \E idx \in Idxs : \E ext \in Exts :
        /\ Holding
        /\ IsConv(audios[i], idx, ext)
        /\ HasSep(ConvTitle(audios[i], idx, ext))
        /\ title # <<>>
        /\ Len(title) < Len(ConvTitle(audios[i], idx, ext)) - 4

\* A step raised exactly when the run is stopped, and a stopped run has done
\* nothing for the entries listed after the failing one and has left the
\* documents it wrote for the entries before it as it wrote them.
StopsAtFailure ==
    /\ (err # "none") <=> (pc = "failed")
    /\ pc = "failed" =>
          /\ i \in 1..Len(audios)
          /\ \A k \in (i + 1)..Len(audios) : \A m \in 1..Len(trace) :
                trace[m].audio # audios[k]
          /\ \A k \in 1..(i - 1) : \E m \in Writes :
                /\ trace[m].audio = audios[k]
                /\ trace[m].path = JsonName(audios[k])
                /\ disk[trace[m].path] = WholeFile(trace[m].doc)

(* C6, as stated: a failure while parsing, transcribing or writing the k-th *)
(* entry stops the batch there: nothing is done for later entries, the      *)
(* outputs of earlier entries stay as written, and no completed output      *)
(* document exists for the failing entry.                                   *)
C6_NoDocumentForFailed ==
    /\ StopsAtFailure
    /\ pc = "failed" => ~HasWholeDoc(audios[i])

(* C6, amended: a failure while parsing, transcribing or writing the k-th   *)
(* entry stops the batch there: nothing is done for later entries, the      *)
(* outputs of earlier entries stay as written, and the failing run writes   *)
(* no completed output document for the failing entry (one that an earlier  *)
(* run left in the output directory may still be there).                    *)
C6_NoWriteForFailed ==
    /\ StopsAtFailure
    /\ pc = "failed" => Steps("write", audios[i]) = {}

\* The second of two entries fails in the transcription call after the
\* first was written.
C6_Witness ==
    /\ pc = "failed"
    /\ err = "transcribe"
    /\ i = 2
    /\ HasWholeDoc(audios[1])
    /\ Steps("write", audios[1]) # {}

OpsInOrder == <<"parse", "transcribe", "write">>

(* C7: the steps of a run are parse, transcribe, write for the first entry, *)
(* then for the second, and so on: an entry's output file is written in     *)
(* full before the next entry's transcription call, at most one entry is in *)
(* progress, the call is made on the entry's own path, never twice for an   *)
(* entry and once for every entry that is written.                          *)
C7_Sequential ==
    /\ Len(trace) <= 3 * Len(audios)
    /\ \A m \in 1..Len(trace) :
          /\ trace[m].op = OpsInOrder[((m - 1) % 3) + 1]
          /\ trace[m].audio = audios[((m - 1) \div 3) + 1]
          /\ trace[m].op = "transcribe" =>
                /\ trace[m].path = <<"tedx_audios/">> \o trace[m].audio
                /\ \A n \in 1..(m - 1) : trace[n].op = "write" =>
                      disk[trace[n].path] = WholeFile(trace[n].doc)
    /\ \A f \in dir :
          /\ Cardinality(Steps("transcribe", f)) <= 1
          /\ Steps("write", f) # {} => Cardinality(Steps("transcribe", f)) = 1
    /\ Cardinality({f \in dir : Steps("parse", f) # {} /\ Steps("write", f) = {}}) <= 1
    /\ pc = "done" =>
          \A f \in dir : Cardinality(Steps("transcribe", f)) = 1

\* The transcription call for the second entry has been made.
C7_Witness ==
    /\ Len(audios) = 2
    /\ Steps("transcribe", audios[2]) # {}
    /\ Steps("write", audios[1]) # {}

(* C8: a run to completion that follows a run to completion on the same     *)
(* input directory, with the model returning the same results, leaves the   *)
(* output directory with the same files and the same content per file.      *)
C8_RerunSameOutput ==
    (pc = "done" /\ snap.valid) =>
        /\ DOMAIN disk = DOMAIN snap.disk
        /\ \A p \in DOMAIN disk : disk[p] = snap.disk[p]
        /\ \A p \in DOMAIN disk : Len(disk[p].docs) = 1 /\ ~disk[p].torn

\* A second completed run that rewrote a document with chunks.
C8_Witness ==
    /\ pc = "done"
    /\ snap.valid
    /\ Writes # {}
    /\ \E k \in Writes : Len(trace[k].doc.chunks) = 2

(* C9: with an input directory that has no entry the run ends without an    *)
(* error, calls the model for nothing and writes no file.                   *)
C9_EmptyDirectory ==
    dir = {} =>
        /\ pc \in {"list", "done"}
        /\ err = "none"
        /\ trace = <<>>
        /\ DOMAIN disk = {}

\* The run over the empty directory has ended.
C9_Witness == dir = {} /\ pc = "done" /\ audios = <<>>

(* C10: a name with no underscore fails while the title is parsed, before   *)
(* the model is called: no call, no output file for it, and the batch stops *)
(* there.  A name with an underscore never fails to parse; a second token   *)
(* shorter than what is trimmed gives an empty title.                       *)
C10_UnderscoreDecidesParse ==
    /\ \A m \in 1..Len(trace) : ~HasSep(trace[m].audio) =>
          /\ trace[m].op = "parse"
          /\ m = Len(trace)
          /\ pc = "failed"
          /\ err = "parse"
    /\ \A f \in dir : ~HasSep(f) => JsonName(f) \notin DOMAIN disk
    /\ err = "parse" => ~HasSep(audios[i])
    /\ (Holding /\ HasSep(audios[i])
           /\ SecondEnd(audios[i]) - FirstSep(audios[i]) < 4) => title = <<>>

\* The run stopped on a name with no underscore.
C10_Witness ==
    /\ pc = "failed"
    /\ err = "parse"
    /\ ~HasSep(audios[i])
    /\ Steps("transcribe", audios[i]) = {}

====
